---- MODULE Spec2Model ----
(***************************************************************************)
(* State-machine model of the chat session handler of ChatPage.tsx: the    *)
(* React state and refs of the component, the WebSocket objects it         *)
(* creates, the closures of its effects (isCleanup, reconnectTimer,        *)
(* isActive), the pending uploads of sendMessage, and one action per       *)
(* effect run, event handler and callback.                                 *)
(*                                                                         *)
(* Every handler runs to completion (single-threaded event loop), so each  *)
(* is one atomic action.  A WebSocket dispatches message events only       *)
(* while its readyState is OPEN; after close() its close event still       *)
(* fires, with the code of the closing handshake.                          *)
(***************************************************************************)
EXTENDS Integers, Sequences, FiniteSets, TLC

\* ---------------------------------------------------------------- bounds
\* size of the message store, see TextSize
MaxText == 2

\* ------------------------------------------------------------- constants
TerminalCode == 1008

Null == "null"
\* chat ids of the route /dashboard/chat/:chatId, and ids the server assigns
RouteChatIds == {"c1"}
ChatIds == {"c1", "c2"}
RouteModels == {"r1"}
Deltas == {"a", "b"}
\* what the user may have in the text box and in the staged files
Drafts == {<<<<>>, <<>>>>, <<<<" ">>, <<>>>>, <<<<"x">>, <<>>>>,
           <<<<" ">>, <<"f">>>>}
CloseCodes == {1006, TerminalCode}
\* the readings of the millisecond clock
Clock == {0, 1}

VARIABLES
  phase,              \* "init" | "mounted" | "unmounted"
  activeChatId,       \* routeChatId || null
  messages,           \* useState<Message[]>
  isStreaming,        \* useState
  isThinking,         \* useState
  isStreamingRef,     \* useRef
  currentStreamModel, \* useRef
  internalChatIdRef,  \* useRef
  input,              \* useState: sequence of characters
  selectedFiles,      \* useState: sequence of staged files
  cur,                \* the WebSocket ws.current refers to, NoSock for null
  others,             \* the WebSockets not yet closed that it no longer does
  timers,             \* pending setTimeout callbacks of the effect closures
  uploads,            \* sendMessage calls suspended at the upload await
  fetches,            \* loadHistory calls suspended at the fetch await
  url,                \* chat id shown in the location bar
  burst,              \* history: the current run of consecutive deltas
  lastStep,           \* history: what the last step did, see Init
  inFlight,           \* history: user_message frames transmitted for turns
                      \* that have not ended
  now                 \* the reading of Date.now()

vars == <<phase, activeChatId, messages, isStreaming, isThinking,
          isStreamingRef, currentStreamModel, internalChatIdRef, input,
          selectedFiles, cur, others, timers, uploads, fetches, url, burst,
          lastStep, inFlight, now>>

\* ---------------------------------------------------------------- helpers
Last(s) == s[Len(s)]

Front(s) == SubSeq(s, 1, Len(s) - 1)

IsSpace(c) == c = " "

\* String.prototype.trim on a sequence of characters
RECURSIVE TrimLeft(_)
TrimLeft(s) ==
  IF s = <<>> THEN <<>>
  ELSE IF IsSpace(Head(s)) THEN TrimLeft(Tail(s)) ELSE s

RECURSIVE TrimRight(_)
TrimRight(s) ==
  IF s = <<>> THEN <<>>
  ELSE IF IsSpace(Last(s)) THEN TrimRight(Front(s)) ELSE s

Trim(s) == TrimRight(TrimLeft(s))

\* the fixed texts of the notices the component appends
DisconnectNotice == <<"disconnected">>

UploadFailedNotice == <<"upload-failed">>

WarningText == <<"warning">>

ErrorText == <<"error">>

\* id: `${prefix}-${Date.now()}`, the prefix being that of the place that
\* creates the message
MessageId(role, content) ==
  <<CASE role = "user" -> "user"
      [] role = "ai" -> "ai"
      [] content = WarningText -> "warn"
      [] content = ErrorText -> "err"
      [] OTHER -> "sys",
    now>>

\* a message created by the component; prev is history: the message was
\* in the store when the route changed to another chat id
Msg(role, content, mdl, att) ==
  [role |-> role, content |-> content, model |-> mdl, att |-> att,
   id |-> MessageId(role, content), prev |-> FALSE]

\* history: the messages the store holds when the route changes
MarkPrev(ms) == [i \in 1..Len(ms) |-> [ms[i] EXCEPT !.prev = TRUE]]

NoBurst == [on |-> FALSE, len0 |-> 0, fresh |-> FALSE, deltas |-> <<>>]

\* the size of the store: one per message, one more per further delta
RECURSIVE TextSize(_)
TextSize(ms) ==
  IF ms = <<>> THEN 0
  ELSE TextSize(Tail(ms))
       + (IF Head(ms).role = "ai" THEN Len(Head(ms).content) ELSE 1)

HasRoom(ms) == TextSize(ms) < MaxText

\* the reply to the first message of a session may grow by one delta more
ReplyRoom(ms, wasStreaming) ==
  /\ wasStreaming
  /\ Len(ms) = 2
  /\ ms[1].role = "user" /\ ms[2].role = "ai"
  /\ Len(ms[2].content) <= MaxText

\* the first reply of a session may be interrupted by one notice after
\* its first delta
InterruptRoom(ms) ==
  /\ Len(ms) = 2
  /\ ms[1].role = "user" /\ ms[2].role = "ai"
  /\ Len(ms[2].content) = 1

\* and one delta may follow that notice
ResumeRoom(ms) ==
  /\ Len(ms) = 3
  /\ ms[1].role = "user" /\ ms[2].role = "ai" /\ ms[3].role = "system"

\* ------------------------------------------------------------- WebSocket
\* ws.current = null
NoSock ==
  [st |-> "NONE", est |-> FALSE, stale |-> FALSE, chat |-> Null, code |-> 0]

\* variant of TargetChatId: the id of the route, whatever the ref holds
TargetChatIdRoute(ref, chat) == chat

\* connect(): targetChatId = internalChatIdRef.current || activeChatId || ""
TargetChatId(ref, chat) == IF ref # Null THEN ref ELSE chat

\* new WebSocket(wsUrl) in connect(): readyState CONNECTING; chat is the
\* chat_id of the url; stale is the isCleanup its handlers see; est says
\* that the connection was established; code is the close code that
\* onclose acted on
NewSocket(ref, chat) ==
  [st |-> "CONNECTING", est |-> FALSE, stale |-> FALSE,
   chat |-> TargetChatId(ref, chat), code |-> 0]

Alive(sk) == sk.st \in {"CONNECTING", "OPEN", "CLOSING"}

\* WebSocket.close(): starts the closing handshake unless already closing
CloseSock(sk) ==
  IF sk.st \in {"CONNECTING", "OPEN"} THEN [sk EXCEPT !.st = "CLOSING"]
  ELSE sk

\* a closed socket: only its state and the code onclose acted on remain
ClosedSock(code) ==
  [st |-> "CLOSED", est |-> FALSE, stale |-> FALSE, chat |-> Null,
   code |-> code]

\* isCleanup = true, as seen by the handlers of a socket of that closure:
\* they return at once, so such sockets are told apart by their state only
StaleSock(sk) ==
  IF Alive(sk) THEN [sk EXCEPT !.stale = TRUE, !.chat = Null] ELSE sk

\* ws.current is overwritten: the socket it referred to lives on until closed
Unref(sk, os) == IF Alive(sk) THEN os \cup {sk} ELSE os

\* the sockets whose events can still fire
Refs ==
  (IF Alive(cur) THEN {[isCur |-> TRUE, sk |-> cur]} ELSE {})
  \cup {[isCur |-> FALSE, sk |-> o] : o \in others}

\* socket r.sk becomes new
Put(r, new) ==
  IF r.isCur
  THEN cur' = new /\ others' = others
  ELSE /\ cur' = cur
       /\ others' = (others \ {r.sk}) \cup (IF Alive(new) THEN {new} ELSE {})

\* message events are dispatched only while the readyState is OPEN
Deliverable(sk) == sk.st = "OPEN"

\* variant of Schedule: onclose schedules no reconnect
ScheduleNone(tm) == tm

\* reconnectTimer = setTimeout(...): the closure's variable names the new
\* timer and no longer the one it named before
Schedule(tm) ==
  {[t EXCEPT !.named = FALSE] : t \in tm}
  \cup {[stale |-> FALSE, named |-> TRUE, torn |-> FALSE]}

\* variant of CleanupTimers: the cleanup neither clears the pending timer
\* nor makes its callback see isCleanup
CleanupTimersKeep(tm) == tm

\* isCleanup = true; clearTimeout(reconnectTimer)
CleanupTimers(tm) ==
  {[t EXCEPT !.stale = TRUE, !.named = FALSE] :
     t \in {x \in tm : x.stale \/ ~x.named}}

\* history: the timers that were pending when an effect cleanup ran
Torn(tm) == {[t EXCEPT !.torn = TRUE] : t \in tm}

\* history: an effect cleanup ran, with a reconnect timer pending or not
Teardown(tm) == IF tm = {} THEN "teardown" ELSE "teardown:timer"

\* history flag of a suspended sendMessage: the turn it opened has ended
TurnEnded(ups) == {[u EXCEPT !.own = FALSE] : u \in ups}

\* ------------------------------------------------------------------ Init
Init ==
  /\ phase = "init"
  /\ activeChatId \in RouteChatIds \cup {Null}
  /\ messages = <<>>
  /\ isStreaming = FALSE
  /\ isThinking = FALSE
  /\ isStreamingRef = FALSE
  /\ currentStreamModel = Null
  /\ internalChatIdRef = activeChatId
  /\ input = <<>>
  /\ selectedFiles = <<>>
  /\ cur = NoSock
  /\ others = {}
  /\ timers = {}
  /\ uploads = {}
  /\ fetches = {}
  /\ url = activeChatId
  /\ burst = NoBurst
  \* "none", or the outcome of a sendMessage step ("send:rejected",
  \* "send:upload", "send:direct", "send:deferred", "send:stale",
  \* "send:dropped", "send:threw"), or of an effect cleanup ("teardown",
  \* "teardown:timer" when a reconnect timer was pending), or "stop" for
  \* an accepted handleStop, or "reset" for a run of the reset effect
  \* after mount, or "replaceState" for a call of
  \* window.history.replaceState
  /\ lastStep = "none"
  /\ inFlight = 0
  /\ now = 0

\* ------------------------------------------------------- effects (mount)
\* loadHistory effect body: clears the store when there is no chat id,
\* otherwise starts a fetch whose completion is guarded by isActive
HistoryStart(fs, chat) ==
  IF chat = Null THEN fs ELSE fs \cup {[chat |-> chat, isActive |-> TRUE]}

HistoryCleanup(fs) == {[f EXCEPT !.isActive = FALSE] : f \in fs}

\* first commit: the effects run in declaration order: loadHistory, the
\* WebSocket effect (connect), and last the reset effect, which closes the
\* socket just created and sets ws.current to null
Mount ==
  /\ phase = "init"
  /\ phase' = "mounted"
  /\ fetches' = HistoryStart(fetches, activeChatId)
  /\ others' = Unref(CloseSock(NewSocket(internalChatIdRef, activeChatId)),
                     Unref(cur, others))
  /\ cur' = NoSock
  /\ messages' = <<>>
  /\ isStreaming' = FALSE
  /\ isThinking' = FALSE
  /\ isStreamingRef' = FALSE
  /\ currentStreamModel' = Null
  /\ internalChatIdRef' = Null
  /\ burst' = NoBurst
  /\ lastStep' = "none"
  /\ inFlight' = 0
  /\ UNCHANGED <<now, activeChatId, input, selectedFiles, timers,
                 uploads, url>>

\* -------------------------------------------------------- socket events
\* socket.onopen: a socket of a cleaned-up effect run is closed at once
SockOpen(r) ==
  /\ r.sk.st = "CONNECTING"
  /\ Put(r, [r.sk EXCEPT !.est = TRUE,
                         !.st = IF r.sk.stale THEN "CLOSING" ELSE "OPEN"])
  /\ burst' = NoBurst
  /\ lastStep' = "none"
  /\ inFlight' = inFlight
  /\ UNCHANGED <<now, phase, activeChatId, messages, isStreaming,
                 isThinking, isStreamingRef, currentStreamModel,
                 internalChatIdRef, input, selectedFiles, timers, uploads,
                 fetches, url>>

\* variant of OnCloseTerminal: the branch tests for a normal closure
OnCloseTerminalNormal(code) == code = 1000

\* socket.onclose, the branch on event.code
OnCloseTerminal(code) == code = TerminalCode

\* the close event of socket r.sk with close code `code`, and
\* socket.onclose.  A connection that was never established fails with 1006.
SockClose(r, code) ==
  /\ Alive(r.sk)
  /\ r.sk.est \/ code = 1006
  /\ Put(r, ClosedSock(IF r.sk.stale THEN 0 ELSE code))
  /\ burst' = NoBurst
  /\ lastStep' = "none"
  /\ inFlight' = IF r.sk.stale THEN inFlight ELSE 0
  /\ IF r.sk.stale
     THEN UNCHANGED <<messages, isStreaming, isThinking, isStreamingRef,
                      timers, uploads>>
     ELSE /\ isStreaming' = FALSE
          /\ isThinking' = FALSE
          /\ isStreamingRef' = FALSE
          /\ uploads' = TurnEnded(uploads)
          /\ IF OnCloseTerminal(code)
             THEN /\ HasRoom(messages)
                  /\ messages' = Append(messages,
                                    Msg("system", DisconnectNotice, Null, <<>>))
                  /\ UNCHANGED timers
             ELSE /\ timers' = Schedule(timers)
                  /\ UNCHANGED messages
  /\ UNCHANGED <<now, phase, activeChatId, currentStreamModel,
                 internalChatIdRef, input, selectedFiles, fetches, url>>

\* a reconnect timer fires: if (!isCleanup) connect()
TimerFire(t) ==
  /\ t \in timers
  /\ timers' = timers \ {t}
  /\ burst' = NoBurst
  /\ lastStep' = "none"
  /\ inFlight' = inFlight
  /\ IF t.stale
     THEN UNCHANGED <<cur, others>>
     ELSE /\ cur' = NewSocket(internalChatIdRef, activeChatId)
          /\ others' = Unref(cur, others)
  /\ UNCHANGED <<now, phase, activeChatId, messages, isStreaming,
                 isThinking, isStreamingRef, currentStreamModel,
                 internalChatIdRef, input, selectedFiles, uploads, fetches,
                 url>>

\* ------------------------------------------------------ inbound frames
Frame(type, event, payload) ==
  [type |-> type, event |-> event, payload |-> payload]

Frames ==
  {Frame("content", "", d) : d \in Deltas}
  \cup {Frame("system", "chat_id", c) : c \in ChatIds}
  \cup {Frame("system", "route", m) : m \in RouteModels}
  \cup {Frame("system", "warning", "w"), Frame("system", "cost", "0.01"),
        Frame("error", "", "e"), Frame("malformed", "", "")}

\* variant of MergeDelta: the flag captured before the delta is not consulted
MergeDeltaAnyAi(prev, wasStreaming, textChunk, mdl) ==
  IF prev # <<>> /\ Last(prev).role = "ai"
  THEN Append(Front(prev),
              [Last(prev) EXCEPT !.content = @ \o <<textChunk>>])
  ELSE Append(prev, Msg("ai", <<textChunk>>, mdl, <<>>))

\* variant of MergeDelta: the chunk is put in front of the content
MergeDeltaPrepend(prev, wasStreaming, textChunk, mdl) ==
  IF prev # <<>> /\ Last(prev).role = "ai" /\ wasStreaming
  THEN Append(Front(prev),
              [Last(prev) EXCEPT !.content = <<textChunk>> \o @])
  ELSE Append(prev, Msg("ai", <<textChunk>>, mdl, <<>>))

\* variant of MergeDelta: a merged delta stamps the pending model on the
\* message again
MergeDeltaRestamp(prev, wasStreaming, textChunk, mdl) ==
  IF prev # <<>> /\ Last(prev).role = "ai" /\ wasStreaming
  THEN Append(Front(prev),
              [Last(prev) EXCEPT !.content = @ \o <<textChunk>>,
                                 !.model = mdl])
  ELSE Append(prev, Msg("ai", <<textChunk>>, mdl, <<>>))

\* the setMessages updater of the content branch
MergeDelta(prev, wasStreaming, textChunk, mdl) ==
  IF prev # <<>> /\ Last(prev).role = "ai" /\ wasStreaming
  THEN Append(Front(prev),
              [Last(prev) EXCEPT !.content = @ \o <<textChunk>>])
  ELSE Append(prev, Msg("ai", <<textChunk>>, mdl, <<>>))

OnContent(r, f) ==
  /\ f.type = "content"
  /\ \/ HasRoom(messages)
     \/ ReplyRoom(messages, isStreamingRef)
     \/ ResumeRoom(messages)
  /\ isThinking' = FALSE
  /\ isStreaming' = TRUE
  /\ isStreamingRef' = TRUE
  /\ messages' = MergeDelta(messages, isStreamingRef, f.payload,
                            currentStreamModel)
  /\ burst' = IF ~r.isCur THEN NoBurst
              ELSE IF burst.on
                THEN [burst EXCEPT !.deltas = Append(@, f.payload)]
                ELSE [on |-> TRUE, len0 |-> Len(messages),
                      fresh |-> ~isStreaming, deltas |-> <<f.payload>>]
  /\ lastStep' = "none"
  /\ inFlight' = inFlight
  /\ UNCHANGED <<currentStreamModel, internalChatIdRef, url, uploads>>

\* variant of ReplaceState: the location bar is left alone
ReplaceStateNever(chat, shown, newId) == shown

\* if (!activeChatId) window.history.replaceState(...): the id shown in
\* the location bar afterwards
ReplaceState(chat, shown, newId) == IF chat = Null THEN newId ELSE shown

OnChatId(f) ==
  /\ f.type = "system" /\ f.event = "chat_id"
  /\ internalChatIdRef' = f.payload
  /\ url' = ReplaceState(activeChatId, url, f.payload)
  /\ burst' = NoBurst
  /\ lastStep' = IF activeChatId = Null THEN "replaceState" ELSE "none"
  /\ inFlight' = inFlight
  /\ UNCHANGED <<messages, isStreaming, isThinking, isStreamingRef,
                 currentStreamModel, uploads>>

OnWarning(f) ==
  /\ f.type = "system" /\ f.event = "warning"
  /\ HasRoom(messages) \/ InterruptRoom(messages)
  /\ messages' = Append(messages, Msg("system", WarningText, Null, <<>>))
  /\ burst' = NoBurst
  /\ lastStep' = "none"
  /\ inFlight' = inFlight
  /\ UNCHANGED <<isStreaming, isThinking, isStreamingRef,
                 currentStreamModel, internalChatIdRef, url, uploads>>

OnRoute(f) ==
  /\ f.type = "system" /\ f.event = "route"
  /\ currentStreamModel' = f.payload
  /\ burst' = NoBurst
  /\ lastStep' = "none"
  /\ inFlight' = inFlight
  /\ UNCHANGED <<messages, isStreaming, isThinking, isStreamingRef,
                 internalChatIdRef, url, uploads>>

OnCost(f) ==
  /\ f.type = "system" /\ f.event = "cost"
  /\ isStreaming' = FALSE
  /\ isStreamingRef' = FALSE
  /\ currentStreamModel' = Null
  /\ uploads' = IF isThinking THEN uploads ELSE TurnEnded(uploads)
  /\ burst' = NoBurst
  /\ lastStep' = "none"
  /\ inFlight' = 0
  /\ UNCHANGED <<messages, isThinking, internalChatIdRef, url>>

\* variant of OnError: the branch does not call setIsThinking(false)
OnErrorKeepsThinking(f) ==
  /\ f.type = "error"
  /\ HasRoom(messages) \/ InterruptRoom(messages)
  /\ messages' = Append(messages, Msg("system", ErrorText, Null, <<>>))
  /\ isStreaming' = FALSE
  /\ isStreamingRef' = FALSE
  /\ uploads' = TurnEnded(uploads)
  /\ burst' = NoBurst
  /\ lastStep' = "none"
  /\ inFlight' = 0
  /\ UNCHANGED <<isThinking, currentStreamModel, internalChatIdRef, url>>

OnError(f) ==
  /\ f.type = "error"
  /\ HasRoom(messages) \/ InterruptRoom(messages)
  /\ messages' = Append(messages, Msg("system", ErrorText, Null, <<>>))
  /\ isStreaming' = FALSE
  /\ isThinking' = FALSE
  /\ isStreamingRef' = FALSE
  /\ uploads' = TurnEnded(uploads)
  /\ burst' = NoBurst
  /\ lastStep' = "none"
  /\ inFlight' = 0
  /\ UNCHANGED <<currentStreamModel, internalChatIdRef, url>>

\* JSON.parse throws: caught and logged, nothing changes
OnMalformed(f) ==
  /\ f.type = "malformed"
  /\ UNCHANGED <<messages, isStreaming, isThinking, isStreamingRef,
                 currentStreamModel, internalChatIdRef, url, burst,
                 lastStep, inFlight, uploads>>

\* the guard at the top of socket.onmessage
MessageIgnored(sk) == sk.stale

\* socket.onmessage of socket r.sk receiving frame f
OnMessage(r, f) ==
  /\ Deliverable(r.sk)
  /\ IF MessageIgnored(r.sk)
     THEN UNCHANGED <<messages, isStreaming, isThinking, isStreamingRef,
                      currentStreamModel, internalChatIdRef, url, burst,
                      lastStep, inFlight, uploads>>
     ELSE \/ OnContent(r, f)
          \/ OnChatId(f)
          \/ OnWarning(f)
          \/ OnRoute(f)
          \/ OnCost(f)
          \/ OnError(f)
          \/ OnMalformed(f)
  /\ UNCHANGED <<now, phase, activeChatId, input, selectedFiles, cur,
                 others, timers, fetches>>

\* ------------------------------------------------------------ user input
\* the user edits the text box or the staged files
Edit(d) ==
  /\ phase = "mounted"
  /\ d # <<input, selectedFiles>>
  /\ input' = d[1]
  /\ selectedFiles' = d[2]
  /\ burst' = NoBurst
  /\ lastStep' = "none"
  /\ inFlight' = inFlight
  /\ UNCHANGED <<now, phase, activeChatId, messages, isStreaming,
                 isThinking, isStreamingRef, currentStreamModel,
                 internalChatIdRef, cur, others, timers, uploads, fetches,
                 url>>

\* ------------------------------------------------------------ sendMessage
\* variant of SendRejected: the guard does not test isThinking
SendRejectedNoThinking ==
  \/ Trim(input) = <<>> /\ selectedFiles = <<>>
  \/ cur = NoSock
  \/ isStreaming

\* variant of SendRejected: the guard does not test isStreaming
SendRejectedNoStreaming ==
  \/ Trim(input) = <<>> /\ selectedFiles = <<>>
  \/ cur = NoSock
  \/ isThinking

\* the early return of sendMessage
SendRejected ==
  \/ Trim(input) = <<>> /\ selectedFiles = <<>>
  \/ cur = NoSock
  \/ isStreaming
  \/ isThinking

\* ws.current.send(payload): throws on null and on a CONNECTING socket,
\* transmits on an OPEN one, discards the data on a CLOSING or CLOSED one
WsSend(sk) ==
  CASE sk.st \in {"NONE", "CONNECTING"} -> "throws"
    [] sk.st = "OPEN" -> "sent"
    [] OTHER -> "dropped"

\* history: one more user_message frame is on the wire; two stands for
\* two or more
Sent(n) == IF n = 0 THEN 1 ELSE 2

\* the tail of sendMessage: send the payload, then clear the input
Transmit(kind) ==
  /\ lastStep' = CASE WsSend(cur) = "sent" -> kind
                   [] WsSend(cur) = "throws" -> "send:threw"
                   [] OTHER -> "send:dropped"
  /\ inFlight' = IF WsSend(cur) = "sent" THEN Sent(inFlight) ELSE inFlight
  /\ input' = IF WsSend(cur) = "throws" THEN input ELSE <<>>
  /\ selectedFiles' = IF WsSend(cur) = "throws" THEN selectedFiles ELSE <<>>

SendMessage ==
  /\ phase = "mounted"
  /\ IF SendRejected
     THEN /\ lastStep' = "send:rejected"
          /\ inFlight' = inFlight
          /\ UNCHANGED <<now, phase, activeChatId, messages, isStreaming,
                         isThinking, isStreamingRef, currentStreamModel,
                         internalChatIdRef, input, selectedFiles, cur,
                         others, timers, uploads, fetches, url, burst>>
     ELSE /\ HasRoom(messages)
          /\ messages' = Append(messages,
                                Msg("user", input, Null, selectedFiles))
          /\ isThinking' = TRUE
          /\ burst' = NoBurst
          /\ IF selectedFiles # <<>>
             THEN /\ uploads = {}
                  /\ uploads' = {[input |-> input, own |-> TRUE,
                                 cancelled |-> FALSE]}
                  /\ lastStep' = "send:upload"
                  /\ inFlight' = inFlight
                  /\ UNCHANGED <<input, selectedFiles>>
             ELSE /\ Transmit("send:direct")
                  /\ UNCHANGED uploads
          /\ UNCHANGED <<now, phase, activeChatId, isStreaming,
                         isStreamingRef, currentStreamModel,
                         internalChatIdRef, cur, others, timers, fetches,
                         url>>

\* variant of OnUploadError: the notice is appended twice
OnUploadErrorTwice(ms) ==
  Append(Append(ms, Msg("system", UploadFailedNotice, Null, <<>>)),
         Msg("system", UploadFailedNotice, Null, <<>>))

\* the setMessages updater of the catch block of the upload
OnUploadError(ms) ==
  Append(ms, Msg("system", UploadFailedNotice, Null, <<>>))

\* the upload request of a suspended sendMessage settles; ok = FALSE is a
\* rejected fetch or a response that is not ok.  After unmount the state
\* setters do nothing; ws.current.send still runs.
UploadDone(u, ok) ==
  /\ u \in uploads
  /\ uploads' = uploads \ {u}
  /\ burst' = NoBurst
  /\ IF ok
     THEN /\ lastStep' = CASE WsSend(cur) = "sent" ->
                              IF u.own THEN "send:deferred" ELSE "send:stale"
                          [] WsSend(cur) = "throws" -> "send:threw"
                          [] OTHER -> "send:dropped"
          /\ inFlight' = IF WsSend(cur) = "sent" THEN Sent(inFlight)
                         ELSE inFlight
          /\ IF phase = "mounted"
             THEN /\ input' = IF WsSend(cur) = "throws" THEN input ELSE <<>>
                  /\ selectedFiles' = IF WsSend(cur) = "throws"
                                      THEN selectedFiles ELSE <<>>
             ELSE UNCHANGED <<input, selectedFiles>>
          /\ UNCHANGED <<messages, isThinking>>
     ELSE /\ lastStep' = "none"
          /\ inFlight' = inFlight
          /\ IF phase = "mounted"
             THEN /\ HasRoom(messages)
                  /\ messages' = OnUploadError(messages)
                  /\ isThinking' = FALSE
             ELSE UNCHANGED <<messages, isThinking>>
          /\ UNCHANGED <<input, selectedFiles>>
  /\ UNCHANGED <<now, phase, activeChatId, isStreaming, isStreamingRef,
                 currentStreamModel, internalChatIdRef, cur, others, timers,
                 fetches, url>>

\* ------------------------------------------------------------- handleStop
\* variant of StopAccepted: the flags are not consulted
StopAcceptedAlways == cur # NoSock

StopAccepted == cur # NoSock /\ (isStreaming \/ isThinking)

\* history flag of a suspended sendMessage: handleStop ran during its upload
Cancelled(ups) == {[u EXCEPT !.own = FALSE, !.cancelled = TRUE] : u \in ups}

HandleStop ==
  /\ phase = "mounted"
  /\ IF StopAccepted
     THEN /\ isStreaming' = FALSE
          /\ isThinking' = FALSE
          /\ isStreamingRef' = FALSE
          /\ cur' = CloseSock(cur)
          /\ uploads' = Cancelled(uploads)
          /\ burst' = NoBurst
          /\ lastStep' = "stop"
          /\ inFlight' = 0
          /\ UNCHANGED <<now, phase, activeChatId, messages,
                         currentStreamModel, internalChatIdRef, input,
                         selectedFiles, others, timers, fetches, url>>
     ELSE /\ lastStep' = "none"
          /\ inFlight' = inFlight
          /\ UNCHANGED <<now, phase, activeChatId, messages, isStreaming,
                         isThinking, isStreamingRef, currentStreamModel,
                         internalChatIdRef, input, selectedFiles, cur,
                         others, timers, uploads, fetches, url, burst>>

\* ----------------------------------------------- reset effect ([resetKey])
ResetKeyChange ==
  /\ phase = "mounted"
  /\ messages' = <<>>
  /\ isStreaming' = FALSE
  /\ isThinking' = FALSE
  /\ isStreamingRef' = FALSE
  /\ currentStreamModel' = Null
  /\ internalChatIdRef' = Null
  /\ others' = Unref(CloseSock(cur), others)
  /\ cur' = NoSock
  /\ uploads' = TurnEnded(uploads)
  /\ burst' = NoBurst
  /\ lastStep' = "reset"
  /\ inFlight' = 0
  /\ UNCHANGED <<now, phase, activeChatId, input, selectedFiles, timers,
                 fetches, url>>

\* ------------------------------- effect re-runs on a dependency change
\* variant of CleanupCur: the cleanup does not close the socket
CleanupCurNoClose(sk) == StaleSock(sk)

\* cleanup of the WebSocket effect: isCleanup = true and
\* if (ws.current) ws.current.close()
CleanupCur(sk) == CloseSock(StaleSock(sk))

CleanupOthers(os) == {StaleSock(o) : o \in os}

\* a commit in which activeChatId, the model or the token changed: the
\* cleanups of the effects that depend on it, then their bodies in
\* declaration order
Rerun(newChat, history, done) ==
  /\ phase = "mounted"
  /\ activeChatId' = newChat
  /\ url' = IF newChat # activeChatId THEN newChat ELSE url
  /\ internalChatIdRef' = IF newChat # activeChatId THEN newChat
                          ELSE internalChatIdRef
  /\ timers' = Torn(CleanupTimers(timers))
  /\ lastStep' = Teardown(timers)
  /\ inFlight' = 0
  /\ cur' = NewSocket(internalChatIdRef', newChat)
  /\ others' = Unref(CleanupCur(cur), CleanupOthers(others))
  /\ IF history
     THEN /\ fetches' = HistoryStart(HistoryCleanup(fetches \ done), newChat)
          /\ messages' = IF newChat = Null THEN <<>>
                          ELSE IF newChat # activeChatId
                            THEN MarkPrev(messages)
                            ELSE messages
     ELSE UNCHANGED <<fetches, messages>>
  /\ burst' = NoBurst
  /\ UNCHANGED <<now, phase, isStreaming, isThinking, isStreamingRef,
                 currentStreamModel, input, selectedFiles, uploads>>

ModelChange == Rerun(activeChatId, FALSE, {})

ChatChange(c) == c # activeChatId /\ Rerun(c, TRUE, {})

TokenChange == Rerun(activeChatId, TRUE, {})

\* the component unmounts: the cleanups run; its state and refs are
\* discarded, except ws, which a suspended sendMessage still reads
Unmount ==
  /\ phase = "mounted"
  /\ phase' = "unmounted"
  /\ timers' = Torn(CleanupTimers(timers))
  /\ lastStep' = Teardown(timers)
  /\ inFlight' = 0
  /\ cur' = CleanupCur(cur)
  /\ others' = CleanupOthers(others)
  /\ fetches' = HistoryCleanup(fetches)
  /\ messages' = <<>>
  /\ isStreaming' = FALSE
  /\ isThinking' = FALSE
  /\ input' = <<>>
  /\ selectedFiles' = <<>>
  /\ isStreamingRef' = FALSE
  /\ currentStreamModel' = Null
  /\ internalChatIdRef' = Null
  /\ burst' = NoBurst
  /\ UNCHANGED <<now, activeChatId, uploads, url>>

\* ------------------------------------------------------- history fetch
\* the formatted messages of the response; their ids are the server's
HistoryOf(c) ==
  <<[Msg("user", <<c>>, Null, <<>>) EXCEPT !.id = <<"hist", 1>>],
    [Msg("ai", <<c>>, "r1", <<>>) EXCEPT !.id = <<"hist", 2>>]>>

\* the fetch of loadHistory settles with a response that is ok
FetchOk(f, hist) ==
  /\ f \in fetches
  /\ fetches' = fetches \ {f}
  /\ burst' = NoBurst
  /\ lastStep' = "none"
  /\ inFlight' = inFlight
  /\ messages' = IF f.isActive THEN hist ELSE messages
  /\ UNCHANGED <<now, phase, activeChatId, isStreaming, isThinking,
                 isStreamingRef, currentStreamModel, internalChatIdRef,
                 input, selectedFiles, cur, others, timers, uploads, url>>

\* the response is not ok: navigate("/dashboard") when still active
FetchNotOk(f) ==
  /\ f \in fetches
  /\ IF f.isActive
     THEN Rerun(Null, TRUE, {f})
     ELSE /\ fetches' = fetches \ {f}
          /\ burst' = NoBurst
          /\ lastStep' = "none"
          /\ inFlight' = inFlight
          /\ UNCHANGED <<now, phase, activeChatId, messages, isStreaming,
                         isThinking, isStreamingRef, currentStreamModel,
                         internalChatIdRef, input, selectedFiles, cur,
                         others, timers, uploads, url>>

\* the fetch rejects: logged, nothing changes
FetchThrows(f) ==
  /\ f \in fetches
  /\ fetches' = fetches \ {f}
  /\ burst' = NoBurst
  /\ lastStep' = "none"
  /\ inFlight' = inFlight
  /\ UNCHANGED <<now, phase, activeChatId, messages, isStreaming,
                 isThinking, isStreamingRef, currentStreamModel,
                 internalChatIdRef, input, selectedFiles, cur, others,
                 timers, uploads, url>>

\* ----------------------------------------------------------------- clock
\* a millisecond passes
Tick ==
  /\ now + 1 \in Clock
  /\ now' = now + 1
  /\ UNCHANGED <<phase, activeChatId, messages, isStreaming, isThinking,
                 isStreamingRef, currentStreamModel, internalChatIdRef,
                 input, selectedFiles, cur, others, timers, uploads,
                 fetches, url, burst, lastStep, inFlight>>

\* ------------------------------------------------------------------ Next
Next ==
  \/ Mount
  \/ \E r \in Refs : SockOpen(r)
  \/ \E r \in Refs, code \in CloseCodes : SockClose(r, code)
  \/ \E t \in timers : TimerFire(t)
  \/ \E r \in Refs, f \in Frames : OnMessage(r, f)
  \/ \E d \in Drafts : Edit(d)
  \/ SendMessage
  \/ \E u \in uploads, ok \in BOOLEAN : UploadDone(u, ok)
  \/ HandleStop
  \/ ResetKeyChange
  \/ ModelChange
  \/ \E c \in RouteChatIds \cup {Null} : ChatChange(c)
  \/ TokenChange
  \/ Unmount
  \/ \E f \in fetches : FetchOk(f, HistoryOf(f.chat))
  \/ \E f \in fetches : FetchOk(f, <<>>)
  \/ \E f \in fetches : FetchNotOk(f)
  \/ \E f \in fetches : FetchThrows(f)
  \/ Tick

Spec == Init /\ [][Next]_vars

\* --------------------------------------------------- one session's turns
\* The session of one mount: the connection and its reconnects, the frames
\* of the server, and the user's typing, sending and stopping.  The props
\* do not change and the history request stays pending.
TurnFrames == {f \in Frames : f.event # "chat_id"}

NextTurn ==
  \/ Mount
  \/ \E r \in Refs : SockOpen(r)
  \/ \E r \in Refs, code \in CloseCodes : SockClose(r, code)
  \/ \E t \in timers : TimerFire(t)
  \/ \E r \in Refs, f \in TurnFrames : OnMessage(r, f)
  \/ \E d \in Drafts : Edit(d)
  \/ SendMessage
  \/ \E u \in uploads, ok \in BOOLEAN : UploadDone(u, ok)
  \/ HandleStop

SpecTurn == Init /\ [][NextTurn]_vars

\* ------------------------------------------------ connection life cycle
\* The connections of the component over every way it creates and closes
\* them: mount, reconnect timer, stop, reset, change of chat, model or
\* token, unmount; the server streams content and closes; the user sends
\* a text.
ContentFrames == {f \in Frames : f.type = "content"}

TextDrafts == {d \in Drafts : Trim(d[1]) # <<>>}

NextConn ==
  \/ Mount
  \/ \E r \in Refs : SockOpen(r)
  \/ \E r \in Refs, code \in CloseCodes : SockClose(r, code)
  \/ \E t \in timers : TimerFire(t)
  \/ \E r \in Refs, f \in ContentFrames : OnMessage(r, f)
  \/ \E d \in TextDrafts : Edit(d)
  \/ SendMessage
  \/ HandleStop
  \/ ResetKeyChange
  \/ ModelChange
  \/ \E c \in RouteChatIds \cup {Null} : ChatChange(c)
  \/ TokenChange
  \/ Unmount

SpecConn == Init /\ [][NextConn]_vars

\* setTimeout: a pending timer fires after its delay
TimerFairness == WF_vars(\E t \in timers : TimerFire(t))

SpecConnFair == SpecConn /\ TimerFairness

\* -------------------------------------------------- conversation identity
\* The chat id of the session: the server assigns ids with chat_id
\* frames, the connection drops and is re-established, the route, the
\* model and the token change, the session is reset, the user sends a
\* text.
IdFrames == {f \in Frames : f.event = "chat_id"}

NextId ==
  \/ Mount
  \/ \E r \in Refs : SockOpen(r)
  \/ \E r \in Refs, code \in CloseCodes : SockClose(r, code)
  \/ \E t \in timers : TimerFire(t)
  \/ \E r \in Refs, f \in IdFrames : OnMessage(r, f)
  \/ \E d \in TextDrafts : Edit(d)
  \/ SendMessage
  \/ ResetKeyChange
  \/ ModelChange
  \/ \E c \in RouteChatIds \cup {Null} : ChatChange(c)
  \/ TokenChange
  \/ Unmount

SpecId == Init /\ [][NextId]_vars

\* ------------------------------------------------------ model attribution
\* The turns of one session in which the server names the model of each
\* reply: route events of two models, content deltas and cost frames.
AttrModels == {"r1", "r2"}

AttrFrames == TurnFrames \cup {Frame("system", "route", m) : m \in AttrModels}

NextAttr ==
  \/ Mount
  \/ \E r \in Refs : SockOpen(r)
  \/ \E r \in Refs, code \in CloseCodes : SockClose(r, code)
  \/ \E t \in timers : TimerFire(t)
  \/ \E r \in Refs, f \in AttrFrames : OnMessage(r, f)
  \/ \E d \in TextDrafts : Edit(d)
  \/ SendMessage
  \/ HandleStop

SpecAttr == Init /\ [][NextAttr]_vars

\* ---------------------------------------------------------- history fetch
\* The history request of loadHistory and what it races with: the request
\* succeeds, is refused or fails while the server streams content, the
\* user sends a text, the route changes, the session is reset, the
\* component unmounts.
NextHist ==
  \/ Mount
  \/ \E r \in Refs : SockOpen(r)
  \/ \E r \in Refs, code \in CloseCodes : SockClose(r, code)
  \/ \E t \in timers : TimerFire(t)
  \/ \E r \in Refs, f \in ContentFrames : OnMessage(r, f)
  \/ \E d \in TextDrafts : Edit(d)
  \/ SendMessage
  \/ ResetKeyChange
  \/ \E c \in RouteChatIds \cup {Null} : ChatChange(c)
  \/ Unmount
  \/ \E f \in fetches : FetchOk(f, HistoryOf(f.chat))
  \/ \E f \in fetches : FetchOk(f, <<>>)
  \/ \E f \in fetches : FetchNotOk(f)
  \/ \E f \in fetches : FetchThrows(f)

SpecHist == Init /\ [][NextHist]_vars

\* ------------------------------------------------- turns and session reset
\* The flags of a session over everything that writes them: send, upload
\* completion, the frames that set or clear a flag, close, stop, reset and
\* reconnect.
FlagFrames == {f \in Frames : f.type \in {"content", "error"} \/ f.event = "cost"}

NextFlags ==
  \/ Mount
  \/ \E r \in Refs : SockOpen(r)
  \/ \E r \in Refs, code \in CloseCodes : SockClose(r, code)
  \/ \E t \in timers : TimerFire(t)
  \/ \E r \in Refs, f \in FlagFrames : OnMessage(r, f)
  \/ \E d \in Drafts : Edit(d)
  \/ SendMessage
  \/ \E u \in uploads, ok \in BOOLEAN : UploadDone(u, ok)
  \/ HandleStop
  \/ ResetKeyChange

SpecFlags == Init /\ [][NextFlags]_vars

\* ------------------------------------------------------ turns and the clock
\* The turns of one session while the millisecond clock advances between
\* some handlers and not between others.
NextUnique ==
  \/ Mount
  \/ \E r \in Refs : SockOpen(r)
  \/ \E r \in Refs, code \in CloseCodes : SockClose(r, code)
  \/ \E t \in timers : TimerFire(t)
  \/ \E r \in Refs, f \in TurnFrames : OnMessage(r, f)
  \/ \E d \in TextDrafts : Edit(d)
  \/ SendMessage
  \/ Tick

SpecUnique == Init /\ [][NextUnique]_vars

\* ================================================================ claims
\* C1 (as amended): a burst of consecutive content deltas of the current
\* connection that starts while streaming is false adds exactly one
\* message to the store, an assistant message whose content is the
\* deltas of the burst in receipt order.
C1_FreshBurstOneMessage ==
  (burst.on /\ burst.fresh) =>
    /\ Len(messages) = burst.len0 + 1
    /\ Last(messages).role = "ai"
    /\ Last(messages).content = burst.deltas

C1_Witness == burst.on /\ burst.fresh /\ Len(burst.deltas) >= 2

\* C1 as stated: every burst of consecutive content deltas of the current
\* connection adds exactly one message, whose content is the burst.
C1_AnyBurstOneMessage ==
  burst.on =>
    /\ Len(messages) = burst.len0 + 1
    /\ Last(messages).role = "ai"
    /\ Last(messages).content = burst.deltas

\* C2: a content delta is appended to the last message iff the store is
\* not empty, its last message is an assistant message and streaming was
\* true before the delta; otherwise a new assistant message seeded with
\* the delta is appended.  Afterwards streaming is true and thinking is
\* false, and no message but the last has changed.
C2_MergeRule ==
  [][\A r \in Refs, f \in ContentFrames :
       (~r.sk.stale /\ OnMessage(r, f)) =>
         /\ isStreaming' /\ ~isThinking'
         /\ IF messages # <<>> /\ Last(messages).role = "ai" /\ isStreaming
            THEN /\ Len(messages') = Len(messages)
                 /\ Front(messages') = Front(messages)
                 /\ Last(messages') =
                      [Last(messages) EXCEPT !.content = @ \o <<f.payload>>]
            ELSE /\ Len(messages') = Len(messages) + 1
                 /\ Front(messages') = messages
                 /\ Last(messages').role = "ai"
                 /\ Last(messages').content = <<f.payload>>]_vars

C2_Witness ==
  /\ burst.on /\ ~burst.fresh
  /\ Len(messages) = burst.len0
  /\ Len(Last(messages).content) >= 2

\* C3: once a connection has been torn down (reset, change of chat, model
\* or token, unmount), none of its handlers changes the store or the
\* streaming and thinking flags any more: neither onmessage with a late
\* frame nor onclose.
C3_NoStaleMutation ==
  [][\A r \in Refs :
       (~r.isCur \/ r.sk.stale) =>
         /\ \A f \in Frames :
              OnMessage(r, f) =>
                UNCHANGED <<messages, isStreaming, isThinking>>
         /\ \A code \in CloseCodes :
              SockClose(r, code) =>
                UNCHANGED <<messages, isStreaming, isThinking>>]_vars

\* C4: sendMessage called while streaming, while thinking, or with a blank
\* text and no staged file changes neither the store, the flags nor the
\* pending input, and transmits nothing.
C4_SendGating ==
  [][(/\ SendMessage
      /\ \/ isStreaming
         \/ isThinking
         \/ Trim(input) = <<>> /\ selectedFiles = <<>>) =>
       /\ UNCHANGED <<messages, isStreaming, isThinking, input,
                      selectedFiles, uploads>>
       /\ lastStep' = "send:rejected"]_vars

C4_Witness ==
  lastStep = "send:rejected" /\ isThinking /\ Trim(input) # <<>>

\* C5: sendMessage called while the connection is not open appends no
\* user message, does not set thinking and transmits nothing.
C5_SendNeedsOpen ==
  [][(SendMessage /\ cur.st # "OPEN") =>
       /\ UNCHANGED <<messages, isThinking>>
       /\ lastStep' = "send:rejected"]_vars

\* C6: a user_message frame is transmitted only when the turn of every
\* frame transmitted before it has ended (cost or error frame, close,
\* stop, reset, effect cleanup).
C6_OneTurnInFlight == inFlight <= 1

\* C7: a reconnect timer that was pending when an effect cleanup ran makes
\* no connection attempt when it fires, and at most one reconnect timer is
\* pending at any time.
C7_NoReconnectAfterTeardown ==
  [][/\ \A t \in timers :
          (t.torn /\ TimerFire(t)) => UNCHANGED <<cur, others>>
     /\ Cardinality(timers') <= 1]_vars

C7_Witness == lastStep = "teardown:timer"

\* C8: at most one connection is connecting or open: every connection
\* that ws.current no longer refers to has had its close initiated.
C8_NoOverlap == \A o \in others : o.st \notin {"CONNECTING", "OPEN"}

C8_Witness == cur.st = "CONNECTING" /\ others # {}

\* C9: when the current connection closes with code 1008, one system
\* notice is appended, streaming and thinking become false and no
\* reconnect is scheduled; after it only an effect re-run connects again.
C9_TerminalClose ==
  [][/\ \A r \in Refs :
          (r.isCur /\ ~r.sk.stale /\ SockClose(r, TerminalCode)) =>
            /\ Len(messages') = Len(messages) + 1
            /\ Front(messages') = messages
            /\ Last(messages').role = "system"
            /\ Last(messages').content = DisconnectNotice
            /\ ~isStreaming' /\ ~isThinking'
            /\ timers' = {}
     /\ (cur.code = TerminalCode /\ cur' # cur) =>
          lastStep' \in {"teardown", "teardown:timer"} \/ cur' = NoSock]_vars

C9_Witness ==
  /\ cur.code = TerminalCode
  /\ messages # <<>>
  /\ Last(messages).content = DisconnectNotice

\* C10: a close of the current connection with a code other than 1008
\* schedules exactly one reconnect timer and appends no message, and a
\* pending reconnect timer leads to a connection attempt unless the
\* component unmounts; nothing counts or caps the attempts.
C10_RetryableClose ==
  /\ [][\A r \in Refs, code \in CloseCodes \ {TerminalCode} :
          (r.isCur /\ ~r.sk.stale /\ SockClose(r, code)) =>
            /\ Cardinality(timers') = Cardinality(timers) + 1
            /\ messages' = messages]_vars
  /\ (\E t \in timers : ~t.stale)
       ~> (cur.st = "CONNECTING" \/ phase = "unmounted")

C10_Witness ==
  /\ cur.st = "CLOSED" /\ cur.code = 1006
  /\ \E t \in timers : ~t.stale

\* C11: a connection opened by the reconnect timer or by a change of the
\* model carries the chat id resolved when it is opened: the id of the
\* last chat_id frame of the session if there was one, else the id of the
\* route, else none.  The id of a chat_id frame is kept across closes,
\* reconnects and changes of the model or the token.
C11_ReconnectCarriesResolvedId ==
  [][/\ \A t \in timers :
          (~t.stale /\ TimerFire(t)) =>
            cur'.chat = (IF internalChatIdRef # Null THEN internalChatIdRef
                         ELSE activeChatId)
     /\ ModelChange =>
          cur'.chat = (IF internalChatIdRef # Null THEN internalChatIdRef
                       ELSE activeChatId)
     /\ \A r \in Refs, f \in IdFrames :
          (f.event = "chat_id" /\ ~r.sk.stale /\ OnMessage(r, f)) =>
            internalChatIdRef' = f.payload
     /\ (internalChatIdRef' # internalChatIdRef) =>
          \/ \E r \in Refs, f \in IdFrames :
               f.event = "chat_id" /\ OnMessage(r, f)
          \/ cur' = NoSock
          \/ activeChatId' # activeChatId
          \/ phase' # phase]_vars

C11_Witness ==
  /\ activeChatId = Null
  /\ cur.st = "CONNECTING" /\ cur.chat = "c2"

\* C12: after every step that closes the connection of the session (close
\* event, stop, reset, effect cleanup on a change of chat, model or token)
\* the streaming and thinking flags are both false.
C12_FlagsFalseAfterClose ==
  [][(/\ cur.st \in {"CONNECTING", "OPEN"}
      /\ \/ cur'.st \notin {"CONNECTING", "OPEN"}
         \/ lastStep' \in {"teardown", "teardown:timer"}) =>
       (~isStreaming' /\ ~isThinking')]_vars

\* C13: once the session has a chat id (from the route or from a chat_id
\* frame), a chat_id frame does not change it to another value.
C13_IdentityFreeze ==
  [][\A r \in Refs, f \in IdFrames :
       (/\ f.event = "chat_id"
        /\ OnMessage(r, f)
        /\ (internalChatIdRef # Null \/ activeChatId # Null)) =>
         (IF internalChatIdRef' # Null THEN internalChatIdRef'
          ELSE activeChatId')
         = (IF internalChatIdRef # Null THEN internalChatIdRef
            ELSE activeChatId)]_vars

\* C14: a chat_id frame whose id the session already holds from an
\* earlier chat_id frame changes no state and makes no call of
\* window.history.replaceState.
C14_ChatIdIdempotent ==
  [][\A r \in Refs, f \in IdFrames :
       (/\ f.event = "chat_id" /\ ~r.sk.stale
        /\ OnMessage(r, f)
        /\ internalChatIdRef = f.payload) =>
         /\ UNCHANGED <<internalChatIdRef, url, messages, isStreaming,
                        isThinking, cur, others, timers, fetches>>
         /\ lastStep' # "replaceState"]_vars

\* C15: the first chat_id frame of a session that has no chat id stores
\* the id and shows it in the location bar, and changes neither the
\* route, the connections, the reconnect timers, the history requests,
\* the store nor the streaming and thinking flags.
C15_NewConversationResolve ==
  [][\A r \in Refs, f \in IdFrames :
       (/\ f.event = "chat_id" /\ ~r.sk.stale
        /\ OnMessage(r, f)
        /\ activeChatId = Null /\ internalChatIdRef = Null) =>
         /\ internalChatIdRef' = f.payload
         /\ url' = f.payload
         /\ UNCHANGED <<phase, activeChatId, cur, others, timers, fetches,
                        messages, isStreaming, isThinking,
                        isStreamingRef>>]_vars

C15_Witness ==
  /\ activeChatId = Null
  /\ lastStep = "replaceState"
  /\ internalChatIdRef = "c2" /\ url = "c2"
  /\ cur.st = "OPEN" /\ isThinking

\* C16: handleStop while streaming or thinking closes the current
\* connection, makes both flags false and leaves the store as it was;
\* handleStop while neither is true changes nothing.
C16_Cancel ==
  [][HandleStop =>
       IF isStreaming \/ isThinking
       THEN /\ cur'.st \notin {"CONNECTING", "OPEN"}
            /\ ~isStreaming' /\ ~isThinking'
            /\ messages' = messages
       ELSE UNCHANGED <<cur, others, timers, messages, isStreaming,
                        isThinking>>]_vars

C16_Witness ==
  /\ lastStep = "stop"
  /\ cur.st = "CLOSING"
  /\ messages # <<>> /\ Last(messages).role = "ai"

\* C17: a connection whose close the client started with close() (stop,
\* reset, effect cleanup on a change of chat, model or token, unmount)
\* schedules no reconnect when its close event arrives.
C17_NoReconnectAfterClientClose ==
  [][\A r \in Refs, code \in CloseCodes :
       (r.sk.st = "CLOSING" /\ SockClose(r, code)) =>
         timers' = timers]_vars

\* C18: when handleStop ran while the upload of a sendMessage was pending,
\* the completion of that upload transmits no user_message frame on any
\* connection.
C18_NoSendAfterCancel ==
  [][\A u \in uploads :
       (u.cancelled /\ UploadDone(u, TRUE)) =>
         lastStep' \in {"send:dropped", "send:threw"}]_vars

C21_ErrorFrame ==
  [][/\ \A r \in Refs, f \in TurnFrames :
          (f.type = "error" /\ ~r.sk.stale /\ OnMessage(r, f)) =>
            /\ Len(messages') = Len(messages) + 1
            /\ Front(messages') = messages
            /\ Last(messages').role = "system"
            /\ Last(messages').content = ErrorText
            /\ ~isStreaming' /\ ~isThinking'
            /\ r.isCur /\ cur'.st = "OPEN"
            /\ UNCHANGED <<cur, others, timers>>
     /\ \A r \in Refs, f \in TurnFrames :
          (/\ f.type = "content" /\ ~r.sk.stale
           /\ OnMessage(r, f)
           /\ messages # <<>>
           /\ Last(messages).role = "system"
           /\ Last(messages).content = ErrorText) =>
            /\ Len(messages') = Len(messages) + 1
            /\ Front(messages') = messages
            /\ Last(messages').role = "ai"
            /\ Last(messages').content = <<f.payload>>]_vars

C21_Witness ==
  /\ Len(messages) = 4
  /\ messages[1].role = "user" /\ messages[2].role = "ai"
  /\ messages[3].content = ErrorText /\ messages[4].role = "ai"
  /\ cur.st = "OPEN"

\* C22: a history request that was pending when the session was torn down
\* (route change, unmount, reset) changes neither the store nor the route
\* when it completes.
C22_NoStaleHistory ==
  [][\A f \in fetches :
       (~f.isActive \/ lastStep = "reset") =>
         /\ \A h \in {HistoryOf(f.chat), <<>>} :
              FetchOk(f, h) => messages' = messages
         /\ FetchNotOk(f) => UNCHANGED <<messages, activeChatId>>]_vars

\* C23: when the route has changed to another chat id and the history
\* request of that change is no longer pending, the store holds no message
\* that it held before the change.
C23_StoreReplaced ==
  (phase = "mounted" /\ \A f \in fetches : ~f.isActive) =>
    \A i \in 1..Len(messages) : ~messages[i].prev

\* C24: the messages of the store have pairwise distinct ids.
C24_UniqueIds ==
  \A i, j \in 1..Len(messages) :
    i # j => messages[i].id # messages[j].id

\* C25: streaming and thinking are never both true.
C25_FlagsExclusive == ~(isStreaming /\ isThinking)

C25_Witness ==
  /\ isStreaming /\ ~isThinking
  /\ burst.on /\ burst.fresh
  /\ Len(messages) = 2 /\ messages[1].role = "user"
  /\ inFlight = 1

\* C26: after the mount of the component the connection that the initial
\* connect() opened is the current connection and is still connecting:
\* nothing in the mount has closed it or cleared the reference to it.
C26_InitialConnectionCurrent ==
  [][Mount =>
       /\ cur' = NewSocket(internalChatIdRef, activeChatId)
       /\ \A o \in others' : o \in others]_vars

\* C27: after a cost frame is processed streaming and thinking are both
\* false.
C27_CostEndsTurn ==
  [][\A r \in Refs, f \in TurnFrames :
       (f.event = "cost" /\ ~r.sk.stale /\ OnMessage(r, f)) =>
         ~isStreaming' /\ ~isThinking']_vars

\* C28: while the turn of a transmitted user_message has not ended, the
\* store holds at most one assistant message after the last user message.
C28_OneReplyPerTurn ==
  inFlight = 1 =>
    \A i, j \in 1..Len(messages) :
      (i < j /\ messages[i].role = "ai" /\ messages[j].role = "ai") =>
        \E k \in (i + 1)..Len(messages) : messages[k].role = "user"

\* C29: a history request that completes while its guard is still set and
\* no reset has run keeps every message that was appended to the store
\* after the request started; and a content delta is never merged into a
\* message that came from history.
C29_HistoryKeepsNewMessages ==
  [][/\ \A f \in fetches :
          (f.isActive /\ lastStep # "reset"
           /\ FetchOk(f, HistoryOf(f.chat))) =>
            \A i \in 1..Len(messages) :
              (messages[i].id[1] # "hist" /\ ~messages[i].prev) =>
                \E j \in 1..Len(messages') : messages'[j] = messages[i]
     /\ \A r \in Refs, f \in ContentFrames :
          (OnMessage(r, f) /\ ~r.sk.stale /\ messages # <<>>
           /\ Len(messages') = Len(messages)) =>
            Last(messages).id[1] # "hist"]_vars

\* C30: every step that ends a turn (error frame, close event of the
\* current connection, accepted stop) leaves the pending route model
\* cleared.
C30_RouteModelCleared ==
  [][/\ \A r \in Refs, f \in AttrFrames :
          (f.type = "error" /\ ~r.sk.stale /\ OnMessage(r, f)) =>
            currentStreamModel' = Null
     /\ \A r \in Refs, code \in CloseCodes :
          (r.isCur /\ ~r.sk.stale /\ SockClose(r, code)) =>
            currentStreamModel' = Null
     /\ (HandleStop /\ StopAccepted) => currentStreamModel' = Null]_vars

====
